---- MODULE Spec2Model ----
(***************************************************************************)
(* A model of src/bot.py: the WhatsApp number checker bot.                 *)
(*                                                                         *)
(* Strings are sequences of one-character strings, so that the            *)
(* normalisation (clean_phone_number), the splitting of the numbers text   *)
(* (process_numbers) and int() are computed as the code computes them.     *)
(* Time is a clock of ticks of half a second (the length of the two        *)
(* asyncio.sleep(0.5) calls).  A session is one chat's conversation: its   *)
(* ConversationHandler state, its context.user_data, and the position of   *)
(* its running set_retry_and_check coroutine, which is interleaved with    *)
(* the other sessions at its await points.                                 *)
(***************************************************************************)
EXTENDS Integers, Sequences, FiniteSets, TLC

\* ------------------------------------------------------------------ bounds

\* The longest numbers text a user sends, in parts.
MaxBatch == 2

\* The last tick of the clock.
MaxClock == 4

\* The longest raw input of the normalisation, in characters.
MaxLen == 3

\* The numbers of the batch whose progress is followed.
ManyNumbers == 250

\* ------------------------------------------------------- program constants

\* len(store.checked_numbers) % 10 == 0: the periodic save.
FlushEvery == 10

\* retry_hours = 24
DefaultRetryHours == 24

\* if not 1 <= retry_hours <= 168
MinRetryHours == 1

MaxRetryHours == 168

\* if i % 5 == 0 or i == len(numbers)
ProgressEvery == 5

\* int((i / len(numbers)) * 100)
PerCent == 100

\* The bits of the significand of a float (i / len(numbers) is a binary64).
MantissaBits == 53

\* Ticks per second: a tick is the 0.5 s of asyncio.sleep(0.5).
TicksPerSecond == 2

\* await asyncio.sleep(0.5) in _check_with_api, in ticks.
ApiDelay == 1

\* await asyncio.sleep(0.5) at the end of each iteration, in ticks.
RateLimitSleep == 1

\* timedelta(hours=retry_hours), in seconds per hour.
SecondsPerHour == 3600

TicksPerHour == SecondsPerHour * TicksPerSecond

\* The minimum interval between two backend calls: the rate-limit sleep.
MinInterval == RateLimitSleep

\* An absent next_retry (Python's None).
None == [fmt |-> "none", t |-> 0]

Sessions == {"u1", "u2"}

\* ------------------------------------------------------------------ strings

Digits == <<"0", "1", "2", "3", "4", "5", "6", "7", "8", "9">>

\* c.isdigit()
IsDigit(c) == \E k \in 1..10 : Digits[k] = c

DigitValue(c) == (CHOOSE k \in 1..10 : Digits[k] = c) - 1

IsSpace(c) == c \in {" ", "\n", "\t"}

\* str.startswith
StartsWith(s, p) == Len(s) >= Len(p) /\ SubSeq(s, 1, Len(p)) = p

\* str.strip()
Strip(s) ==
    LET keep == {k \in 1..Len(s) : ~IsSpace(s[k])}
    IN  IF keep = {} THEN <<>>
        ELSE SubSeq(s, CHOOSE a \in keep : \A b \in keep : a <= b,
                       CHOOSE a \in keep : \A b \in keep : a >= b)

\* str.split(sep) for a one-character separator: the parts of s between its
\* separators, of which the j-th has j - 1 separators before it.
Split(s, sep) ==
    LET at == {k \in 1..Len(s) : s[k] = sep}
        n == Cardinality(at)
        pos == [j \in 0..(n + 1) |->
                   IF j = 0 THEN 0
                   ELSE IF j = n + 1 THEN Len(s) + 1
                   ELSE CHOOSE k \in at : Cardinality({m \in at : m < k}) = j - 1]
    IN  [j \in 1..(n + 1) |-> SubSeq(s, pos[j - 1] + 1, pos[j] - 1)]

RECURSIVE Concat(_)
Concat(ss) == IF ss = <<>> THEN <<>> ELSE Head(ss) \o Concat(Tail(ss))

\* A variant that puts a '+' before a number that has one.
clean_phone_numberPlusAgain(phone) ==
    LET p == Strip(phone)
        q == IF StartsWith(p, <<"0">>) THEN <<"+", "2", "3", "4">> \o Tail(p)
             ELSE <<"+">> \o p
    IN  SelectSeq(q, LAMBDA c : IsDigit(c) \/ c = "+")

\* clean_phone_number for a str argument (the except branch, which returns
\* None, is taken only for an argument that is no str).
clean_phone_number(phone) ==
    LET p == Strip(phone)
        q == IF StartsWith(p, <<"0">>) THEN <<"+", "2", "3", "4">> \o Tail(p)
             ELSE IF StartsWith(p, <<"2", "3", "4">>) THEN <<"+">> \o p
             ELSE IF ~StartsWith(p, <<"+">>) THEN <<"+">> \o p
             ELSE p
    IN  SelectSeq(q, LAMBDA c : IsDigit(c) \/ c = "+")

\* checker.clean_phone_number(number) or number
clean_num(number) ==
    IF clean_phone_number(number) = <<>> THEN number
    ELSE clean_phone_number(number)

\* The stub backend: the result follows the last character of the number.
check_with_api(phone) ==
    IF phone[Len(phone)] \in {"0", "2", "4", "6", "8"} THEN "on_whatsapp"
    ELSE "not_on_whatsapp"

\* The loops of process_numbers: the parts of the lines of the text, stripped,
\* that hold a digit.
ExtractNumbers(text) ==
    LET lines == Split(text, "\n")
        parts == Concat([k \in 1..Len(lines) |-> Split(lines[k], ",")])
        strip == [k \in 1..Len(parts) |-> Strip(parts[k])]
    IN  SelectSeq(strip, LAMBDA p : p # <<>> /\ \E k \in 1..Len(p) : IsDigit(p[k]))

RECURSIVE DigitsValue(_)
DigitsValue(ds) ==
    IF ds = <<>> THEN 0
    ELSE 10 * DigitsValue(SubSeq(ds, 1, Len(ds) - 1)) + DigitValue(ds[Len(ds)])

\* The digits of the literal int(text) reads: the text stripped, less its sign.
IntBody(text) ==
    IF Strip(text) # <<>> /\ Strip(text)[1] \in {"+", "-"} THEN Tail(Strip(text))
    ELSE Strip(text)

\* int(text) raises ValueError.
IntRaises(text) ==
    IntBody(text) = <<>> \/ \E k \in 1..Len(IntBody(text)) : ~IsDigit(IntBody(text)[k])

\* int(text), where it does not raise.
IntOf(text) ==
    IF Strip(text)[1] = "-" THEN 0 - DigitsValue(IntBody(text))
    ELSE DigitsValue(IntBody(text))

\* str.lower() on the characters of the replies.
Lower(text) == [k \in 1..Len(text) |-> IF text[k] = "S" THEN "s" ELSE text[k]]

\* A variant that asks only for one hour at least.
RetryHoursOfNoMost(text) ==
    IF Lower(text) = <<"/", "s", "k", "i", "p">>
    THEN [reply |-> "ok", hours |-> DefaultRetryHours]
    ELSE IF IntRaises(text) THEN [reply |-> "enter_number", hours |-> DefaultRetryHours]
    ELSE IF ~(MinRetryHours <= IntOf(text))
         THEN [reply |-> "enter_1_168", hours |-> IntOf(text)]
    ELSE [reply |-> "ok", hours |-> IntOf(text)]

\* The first lines of set_retry_and_check: the retry hours a reply sets
\* (reply "ok"), or the rejection it gets.
RetryHoursOf(text) ==
    IF Lower(text) = <<"/", "s", "k", "i", "p">>
    THEN [reply |-> "ok", hours |-> DefaultRetryHours]
    ELSE IF IntRaises(text) THEN [reply |-> "enter_number", hours |-> DefaultRetryHours]
    ELSE IF ~(MinRetryHours <= IntOf(text) /\ IntOf(text) <= MaxRetryHours)
         THEN [reply |-> "enter_1_168", hours |-> IntOf(text)]
    ELSE [reply |-> "ok", hours |-> IntOf(text)]

\* now.isoformat(): the instant, all of it.
IsoFormat(t) == [fmt |-> "iso", t |-> t]

\* strftime('%Y-%m-%d %H:%M:%S'): the instant cut to the second.
StrfTime(t) == [fmt |-> "sec", t |-> (t \div TicksPerSecond) * TicksPerSecond]

\* ------------------------------------------------------------------- inputs

\* Raw numbers a user sends: a trunk-prefixed number, the same number in
\* international form, and a number on which the stub answers "not on
\* WhatsApp".
RawInputs == {<<"0", "8">>, <<"+", "2", "3", "4", "8">>, <<"0", "7">>}

\* Parts of a numbers text: the raw numbers, one of them padded, and a part
\* without a digit.
TextParts == RawInputs \cup {<<" ", "0", "7">>, <<"x">>}

RECURSIVE Join(_, _)
Join(parts, sep) ==
    IF Len(parts) = 1 THEN parts[1]
    ELSE parts[1] \o sep \o Join(Tail(parts), sep)

\* The texts of up to n parts.
TextsUpTo(n) ==
    UNION {{Join(ps, <<",">>) : ps \in [1..m -> TextParts]} : m \in 1..n}

\* The number lists process_numbers extracts from texts.
NumberLists(texts) == {ExtractNumbers(t) : t \in texts}

\* The texts of sessions that run beside each other: one number, and two
\* numbers of which the second is that number.
SharedTexts == {<<"0", "8">>, <<"0", "7", ",", "0", "8">>}

\* The decimal numeral of i, for i < 100.
Decimal(i) ==
    IF i < 10 THEN <<Digits[i + 1]>>
    ELSE <<Digits[(i \div 10) + 1], Digits[(i % 10) + 1]>>

\* One part more than the period of the periodic save.
LongBatch == FlushEvery + 1

\* Long texts: one number LongBatch times, for each raw number.
RepeatTexts == {Join([i \in 1..LongBatch |-> r], <<",">>) : r \in RawInputs}

\* A long text of numbers that all differ: +1, +2, ...
DistinctText == Join([i \in 1..LongBatch |-> <<"+">> \o Decimal(i)], <<",">>)

\* The ticks a long batch takes.
LongClock == LongBatch * (ApiDelay + RateLimitSleep)

\* The characters of the raw inputs of the normalisation: digits, of which
\* the trunk digit and those of the country code, the sign, a blank and a
\* character that is none of these.
Alphabet == {"0", "2", "3", "4", "+", " ", "x"}

\* The raw inputs: the strings of up to MaxLen characters.
RawStrings == UNION {[1..n -> Alphabet] : n \in 0..MaxLen}

\* The replies to the retry prompt.
Replies == {<<"2", "4">>, <<"0">>, <<"1", "6", "9">>, <<"a">>}

\* ------------------------------------------------------------------- ledger

\* A variant that forgets the attempts the record has.
NextAttemptsReset(cn, phone) == 1

\* store.checked_numbers.get(phone, {}).get('attempts', 0) + 1
NextAttempts(cn, phone) ==
    IF phone \in DOMAIN cn THEN cn[phone].attempts + 1 ELSE 1

\* A variant that schedules a retry whatever the status.
NextRetryAlways(status, hours, now) == IsoFormat(now + hours * TicksPerHour)

\* next_retry of update_status: now + timedelta(hours=retry_hours) for
\* "not_on_whatsapp", else None.
NextRetry(status, hours, now) ==
    IF status = "not_on_whatsapp" THEN IsoFormat(now + hours * TicksPerHour)
    ELSE None

\* The record update_status writes.
StatusRecord(cn, phone, status, hours, now) ==
    [status |-> status,
     last_check |-> IsoFormat(now),
     next_retry |-> NextRetry(status, hours, now),
     attempts |-> NextAttempts(cn, phone)]

\* store.checked_numbers[phone] = {...}
update_status(cn, phone, status, hours, now) ==
    [k \in DOMAIN cn \cup {phone} |->
        IF k = phone THEN StatusRecord(cn, phone, status, hours, now) ELSE cn[k]]

\* if len(store.checked_numbers) % 10 == 0
FlushDue(cn) == Cardinality(DOMAIN cn) % FlushEvery = 0

\* The key set_retry_and_check passes to update_status: the number as sent.
LedgerKey(number) == number

\* What check_number returns: "invalid" without a backend call for a number
\* that cleans to the empty string, "error" when the backend raises, else
\* the backend's answer.
NeedsCall(number) == clean_phone_number(number) # <<>>

\* A variant that takes a failed call for the answer "not on WhatsApp".
check_numberMasksError(number, outcome) ==
    IF ~NeedsCall(number) THEN "invalid"
    ELSE IF outcome = "raise" THEN "not_on_whatsapp"
    ELSE check_with_api(clean_phone_number(number))

check_number(number, outcome) ==
    IF ~NeedsCall(number) THEN "invalid"
    ELSE IF outcome = "raise" THEN "error"
    ELSE check_with_api(clean_phone_number(number))

\* A variant that reports the number as it was sent.
CheckResultRaw(number, status, hours, now) ==
    [phone |-> number,
     status |-> status,
     check_time |-> StrfTime(now),
     next_retry |-> IF status = "not_on_whatsapp"
                    THEN StrfTime(now + hours * TicksPerHour) ELSE None]

\* The result dict of one item.
CheckResult(number, status, hours, now) ==
    [phone |-> clean_num(number),
     status |-> status,
     check_time |-> StrfTime(now),
     next_retry |-> IF status = "not_on_whatsapp"
                    THEN StrfTime(now + hours * TicksPerHour) ELSE None]

\* ------------------------------------------------------------------ filters

\* datetime.strptime(text, '%Y-%m-%d %H:%M:%S'): the instant the text names.
StrpTime(text) == text.t

\* 'next_retry' in r
HasRetry(r) == r.next_retry # None

\* 'next_retry' in r and datetime.strptime(r['next_retry'], ...) > now
RetryAfter(r, now) == HasRetry(r) /\ StrpTime(r.next_retry) > now

\* 'next_retry' not in r or datetime.strptime(r['next_retry'], ...) > now
NotOnRetry(r, now) == ~HasRetry(r) \/ StrpTime(r.next_retry) > now

\* The list comprehension of filter_type 'on'.
FilterOn(rs) == SelectSeq(rs, LAMBDA r : r.status = "on_whatsapp")

\* A variant that takes every status but "on_whatsapp".
FilterOffNotOn(rs) == SelectSeq(rs, LAMBDA r : r.status # "on_whatsapp")

\* The list comprehension of filter_type 'off'.
FilterOff(rs) == SelectSeq(rs, LAMBDA r : r.status = "not_on_whatsapp")

\* The list comprehension of filter_type 'retry'.
FilterRetry(rs, now) == SelectSeq(rs, LAMBDA r : RetryAfter(r, now))

\* The list comprehension of combo_type 'both_and'.
FilterBothAnd(rs, now) ==
    SelectSeq(rs, LAMBDA r : r.status = "not_on_whatsapp" /\ NotOnRetry(r, now))

\* A variant that asks for a retry that is to come.
FilterBothOrRetry(rs, now) ==
    SelectSeq(rs, LAMBDA r : r.status = "not_on_whatsapp" \/ RetryAfter(r, now))

\* The list comprehension of combo_type 'both_or'.
FilterBothOr(rs, now) ==
    SelectSeq(rs, LAMBDA r : r.status = "not_on_whatsapp" \/ NotOnRetry(r, now))

\* The filtered list of export_results: the if/elif chain over filter_type
\* and combo_type.
Filtered(rs, filter_type, combo_type, now) ==
    IF filter_type = "on" THEN FilterOn(rs)
    ELSE IF filter_type = "off" THEN FilterOff(rs)
    ELSE IF filter_type = "retry" THEN FilterRetry(rs, now)
    ELSE IF combo_type = "both_and" THEN FilterBothAnd(rs, now)
    ELSE IF combo_type = "both_or" THEN FilterBothOr(rs, now)
    ELSE rs

\* filter_desc = filter_type or combo_type
FilterDesc(filter_type, combo_type) ==
    IF filter_type # "" THEN filter_type ELSE combo_type

\* A variant that sends the file whatever it holds.
ExportReplyAlways(rs, out, desc) == [kind |-> "file", rows |-> out, desc |-> desc]

\* What export_results answers for the results rs and the list out to
\* export: a rejection, or the file of the rows of out.
ExportReply(rs, out, desc) ==
    IF rs = <<>> THEN [kind |-> "no_results", rows |-> <<>>, desc |-> ""]
    ELSE IF out = <<>> THEN [kind |-> "no_match", rows |-> <<>>, desc |-> ""]
    ELSE [kind |-> "file", rows |-> out, desc |-> desc]

\* The callback data of the buttons: of the keyboard of filter_numbers, of
\* the combo keyboard and of the keyboard a finished batch shows.
FilterButtons ==
    {"filter_on", "filter_off", "filter_retry", "filter_combo", "filter_reset",
     "export_filtered"}

ComboButtons == {"combo_not", "combo_no_retry", "combo_both_and", "combo_both_or"}

DoneButtons == {"view_stats", "filter_menu", "export_all"}

\* data.replace('filter_', '') and data.replace('combo_', '')
Replaced(data) ==
    CASE data = "filter_on" -> "on"
      [] data = "filter_off" -> "off"
      [] data = "filter_retry" -> "retry"
      [] data = "filter_combo" -> "combo"
      [] data = "filter_reset" -> "reset"
      [] data = "combo_not" -> "not"
      [] data = "combo_no_retry" -> "no_retry"
      [] data = "combo_both_and" -> "both_and"
      [] data = "combo_both_or" -> "both_or"
      [] OTHER -> data

\* ------------------------------------------------------------------ storage

\* The file data.json: missing, torn (opened for writing and not written to
\* its end), or the document of a completed save_to_file.
Missing == [kind |-> "missing"]

Torn == [kind |-> "torn"]

\* json.dump(data, f, default=str): the two maps, None written as null.
JsonDump(cn, ud) ==
    [kind |-> "json",
     checked_numbers |->
        [k \in DOMAIN cn |->
            [status |-> cn[k].status,
             last_check |-> cn[k].last_check,
             next_retry |-> IF cn[k].next_retry = None
                            THEN [fmt |-> "null", t |-> 0] ELSE cn[k].next_retry,
             attempts |-> cn[k].attempts]],
     user_data |-> ud]

\* json.load(f) and data.get('checked_numbers', {}): null read as None.
JsonLoadChecked(doc) ==
    [k \in DOMAIN doc.checked_numbers |->
        [status |-> doc.checked_numbers[k].status,
         last_check |-> doc.checked_numbers[k].last_check,
         next_retry |-> IF doc.checked_numbers[k].next_retry.fmt = "null"
                        THEN None ELSE doc.checked_numbers[k].next_retry,
         attempts |-> doc.checked_numbers[k].attempts]]

JsonLoadUsers(doc) == doc.user_data

\* An empty dict.
EmptyMap == [k \in {} |-> None]

\* The progress_msg of a session that runs no batch.
NoProgress == [processed |-> 0, total |-> 0, percent |-> 0, on |-> 0, off |-> 0]

\* The last step handled no retry reply.
NoReply == [session |-> "none", text |-> <<>>]

\* The last step was no export_results.
NoExport ==
    [session |-> "none", all |-> FALSE, kind |-> "none", rows |-> <<>>, desc |-> ""]

\* clean_phone_number has not been applied.
NotYet == <<"not yet">>

\* -------------------------------------------------------------------- state

VARIABLES
    clock,            \* datetime.now(), in ticks
    proc,             \* the process: "up", "crashed", "crashed_in_flush", "failed"
    file,             \* data.json
    checked_numbers,  \* store.checked_numbers
    user_stats,       \* store.user_data
    conv,             \* the ConversationHandler's state of each session
    numbers_to_check, \* context.user_data['numbers_to_check']
    check_results,    \* context.user_data['check_results']
    retry_hours,      \* context.user_data['retry_hours']
    pc,               \* where the session's set_retry_and_check is suspended
    numbers,          \* its local numbers
    hours,            \* its local retry_hours
    idx,              \* its local i
    results,          \* its local results
    wake,             \* when its asyncio.sleep ends
    updates,          \* history: the update_status calls made for each key
    sinceFlush,       \* history: the update_status calls since the last save
    lastFlushed,      \* history: the document of the last completed save
    lastCallAt,       \* history: when the last backend call started
    cancelled,        \* history: /cancel came while the session's batch ran
    faults,           \* history: the items of the batch whose backend call raised
    progress,         \* the text of the session's progress_msg
    current_filter,   \* context.user_data['current_filter']
    combo_filter,     \* context.user_data['combo_filter']
    combo_menu,       \* a message of the chat shows the combo keyboard
    handled,          \* history: the retry reply the last step handled
    exported,         \* history: what the last step's export_results sent
    raw,              \* a raw input of clean_phone_number and check_number
    cleaned,          \* clean_phone_number(raw)
    recleaned,        \* clean_phone_number(cleaned)
    verdict,          \* what check_number(raw) returned
    called            \* check_number(raw) called the backend

storeVars == <<checked_numbers, user_stats, file, lastFlushed, sinceFlush>>

userVars == <<numbers_to_check, check_results, retry_hours>>

runVars == <<pc, numbers, hours, idx, results, wake, progress>>

filterVars == <<current_filter, combo_filter, combo_menu>>

normVars == <<raw, cleaned, recleaned, verdict, called>>

traceVars == <<handled, exported>>

histVars == <<updates, lastCallAt, cancelled, faults>>

vars == <<clock, proc, conv, storeVars, userVars, runVars, histVars, filterVars,
          normVars, traceVars>>

\* The state of a process that has just started with an empty memory.
FreshSessions ==
    /\ conv = [s \in Sessions |-> "END"]
    /\ numbers_to_check = [s \in Sessions |-> <<>>]
    /\ check_results = [s \in Sessions |-> <<>>]
    /\ retry_hours = [s \in Sessions |-> DefaultRetryHours]
    /\ pc = [s \in Sessions |-> "idle"]
    /\ numbers = [s \in Sessions |-> <<>>]
    /\ hours = [s \in Sessions |-> DefaultRetryHours]
    /\ idx = [s \in Sessions |-> 0]
    /\ results = [s \in Sessions |-> <<>>]
    /\ wake = [s \in Sessions |-> 0]
    /\ cancelled = [s \in Sessions |-> FALSE]
    /\ faults = [s \in Sessions |-> {}]
    /\ progress = [s \in Sessions |-> NoProgress]
    /\ current_filter = [s \in Sessions |-> ""]
    /\ combo_filter = [s \in Sessions |-> ""]
    /\ combo_menu = [s \in Sessions |-> FALSE]

\* store = DataStore(); store.load_from_file() with no data.json; nothing
\* has been handled, and no function has been applied to the raw input.
Booted ==
    /\ clock = 0
    /\ proc = "up"
    /\ file = Missing
    /\ checked_numbers = EmptyMap
    /\ user_stats = EmptyMap
    /\ FreshSessions
    /\ updates = EmptyMap
    /\ sinceFlush = 0
    /\ lastFlushed = Missing
    /\ lastCallAt = -1
    /\ handled = NoReply
    /\ exported = NoExport
    /\ cleaned = NotYet
    /\ recleaned = NotYet
    /\ verdict = "none"
    /\ called = FALSE

Init == Booted /\ raw = <<>>

\* The last step handled no retry reply and exported nothing.
NoTrace == handled' = NoReply /\ exported' = NoExport

\* ----------------------------------------------------------------- handlers

\* check_numbers without arguments: the prompt, and the conversation enters
\* SETTING_RETRY_TIME (an entry point, and allow_reentry=True).
CheckNoArgs(s) ==
    /\ proc = "up"
    /\ conv' = [conv EXCEPT ![s] = "SETTING_RETRY_TIME"]
    /\ NoTrace
    /\ UNCHANGED <<clock, proc, storeVars, userVars, runVars, histVars, filterVars,
                   normVars>>

\* check_numbers with arguments: process_numbers on their text; check_numbers
\* returns None, which leaves the conversation's state as it is.  nums is
\* what ExtractNumbers gives for the text.  A session sends no new numbers
\* while its own batch runs.
CheckWithArgs(s, nums) ==
    /\ proc = "up"
    /\ pc[s] = "idle"
    /\ IF nums = <<>>
       THEN UNCHANGED numbers_to_check
       ELSE numbers_to_check' = [numbers_to_check EXCEPT ![s] = nums]
    /\ NoTrace
    /\ UNCHANGED <<clock, proc, conv, storeVars, check_results, retry_hours,
                   runVars, histVars, filterVars, normVars>>

\* set_retry_and_check up to its first await: the reply is validated, and
\* the batch starts on the pending numbers.  The handler is bound to text
\* messages that are no command, in state SETTING_RETRY_TIME.
SetRetryAndCheck(s, text) ==
    /\ proc = "up"
    /\ conv[s] = "SETTING_RETRY_TIME"
    /\ pc[s] = "idle"
    /\ ~StartsWith(text, <<"/">>)
    /\ IF RetryHoursOf(text).reply # "ok"
       THEN UNCHANGED <<conv, runVars, cancelled, faults>>
       ELSE IF numbers_to_check[s] = <<>>
       THEN /\ conv' = [conv EXCEPT ![s] = "END"]
            /\ UNCHANGED <<runVars, cancelled, faults>>
       ELSE /\ pc' = [pc EXCEPT ![s] = "start"]
            /\ numbers' = [numbers EXCEPT ![s] = numbers_to_check[s]]
            /\ hours' = [hours EXCEPT ![s] = RetryHoursOf(text).hours]
            /\ idx' = [idx EXCEPT ![s] = 0]
            /\ results' = [results EXCEPT ![s] = <<>>]
            /\ cancelled' = [cancelled EXCEPT ![s] = FALSE]
            /\ faults' = [faults EXCEPT ![s] = {}]
            /\ progress' = [progress EXCEPT ![s] =
                               [processed |-> 0, total |-> Len(numbers_to_check[s]),
                                percent |-> 0, on |-> 0, off |-> 0]]
            /\ UNCHANGED <<conv, wake>>
    /\ handled' = [session |-> s, text |-> text]
    /\ exported' = NoExport
    /\ UNCHANGED <<clock, proc, storeVars, userVars, updates, lastCallAt, filterVars,
                   normVars>>

\* save_to_file() to its end.
SaveToFile(cn, ud) ==
    /\ file' = JsonDump(cn, ud)
    /\ lastFlushed' = JsonDump(cn, ud)
    /\ sinceFlush' = 0

\* if i % 5 == 0 or i == len(numbers)
ProgressDue(i, total) == i % ProgressEvery = 0 \/ i = total

\* The floats of i / len(numbers) and of its product with 100: binary64
\* numbers, each the sequence of the bits of its significand, the most
\* significant first, and the number of these bits after the binary point.
\* Every operation gives the float that is nearest to the exact result, the
\* one whose last bit is 0 of two that are as near.
Zeros(k) == [j \in 1..k |-> 0]

RECURSIVE BitsValue(_)
BitsValue(a) ==
    IF a = <<>> THEN 0 ELSE 2 * BitsValue(SubSeq(a, 1, Len(a) - 1)) + a[Len(a)]

RECURSIVE BitsOf(_)
BitsOf(n) == IF n = 0 THEN <<>> ELSE BitsOf(n \div 2) \o <<n % 2>>

\* The bits of n, in a field of width bits.
Padded(n, width) == Zeros(width - Len(BitsOf(n))) \o BitsOf(n)

\* The bits of a * m + carry for a bit sequence a and natural numbers m and
\* carry, computed LimbBits bits of a at a time from its end.
LimbBits == (MantissaBits + 1) \div 3

RECURSIVE MulAdd(_, _, _)
MulAdd(a, m, carry) ==
    IF a = <<>> THEN BitsOf(carry)
    ELSE LET cut == IF Len(a) > LimbBits THEN Len(a) - LimbBits ELSE 0
             t == BitsValue(SubSeq(a, cut + 1, Len(a))) * m + carry
         IN  MulAdd(SubSeq(a, 1, cut), m, t \div 2 ^ (Len(a) - cut))
                 \o Padded(t % 2 ^ (Len(a) - cut), Len(a) - cut)

\* The bits kept of a result, rounded: up when what was dropped is more than
\* half of the last place, or is half of it and the last bit kept is 1.
RoundBits(kept, more, half) ==
    IF more \/ (half /\ kept[Len(kept)] = 1) THEN MulAdd(kept, 1, 1) ELSE kept

\* The zero bits of r / n, for 0 < r < n, between the point and the first 1.
RECURSIVE LeadingZeros(_, _)
LeadingZeros(r, n) == IF 2 * r >= n THEN 0 ELSE 1 + LeadingZeros(2 * r, n)

\* The first k bits of r / n after the point, and what is left to divide.
RECURSIVE QuotientBits(_, _, _)
QuotientBits(r, n, k) ==
    IF k = 0 THEN <<>>
    ELSE IF 2 * r >= n THEN <<1>> \o QuotientBits(2 * r - n, n, k - 1)
    ELSE <<0>> \o QuotientBits(2 * r, n, k - 1)

RECURSIVE Remainder(_, _, _)
Remainder(r, n, k) ==
    IF k = 0 THEN r
    ELSE IF 2 * r >= n THEN Remainder(2 * r - n, n, k - 1)
    ELSE Remainder(2 * r, n, k - 1)

\* i / n for 0 < i <= n.
FloatDiv(i, n) ==
    IF i = n THEN [bits |-> <<1>>, scale |-> 0]
    ELSE LET z == LeadingZeros(i, n)
             k == z + MantissaBits
             r == Remainder(i, n, k)
         IN  [bits |-> RoundBits(SubSeq(QuotientBits(i, n, k), z + 1, k),
                                 2 * r > n, 2 * r = n),
              scale |-> k]

\* x * m for a float x and a natural number m that is a float.
FloatMul(x, m) ==
    LET p == MulAdd(x.bits, m, 0)
        l == Len(p) - MantissaBits
    IN  IF l <= 0 THEN [bits |-> p, scale |-> x.scale]
        ELSE [bits |-> RoundBits(SubSeq(p, 1, MantissaBits),
                                 p[MantissaBits + 1] = 1
                                     /\ \E j \in (MantissaBits + 2)..Len(p) : p[j] = 1,
                                 p[MantissaBits + 1] = 1
                                     /\ \A j \in (MantissaBits + 2)..Len(p) : p[j] = 0),
              scale |-> x.scale - l]

\* int(x) for a float x >= 0: what is before the point.
FloatInt(x) ==
    IF x.scale <= 0 THEN BitsValue(x.bits \o Zeros(0 - x.scale))
    ELSE IF Len(x.bits) <= x.scale THEN 0
    ELSE BitsValue(SubSeq(x.bits, 1, Len(x.bits) - x.scale))

\* int((i / len(numbers)) * 100)
Percent(i, total) == FloatInt(FloatMul(FloatDiv(i, total), PerCent))

\* len([r for r in results if r['status'] == status])
CountStatus(rs, status) == Len(SelectSeq(rs, LAMBDA r : r.status = status))

\* The text progress_msg is edited to after item i.
ProgressText(i, total, rs) ==
    [processed |-> i, total |-> total, percent |-> Percent(i, total),
     on |-> CountStatus(rs, "on_whatsapp"),
     off |-> CountStatus(rs, "not_on_whatsapp")]

\* From the return of check_number to the rate-limit sleep, for item k with
\* the given status: update_status with its periodic save, and the result.
RecordItem(s, k, status) ==
    /\ checked_numbers' = update_status(checked_numbers, LedgerKey(numbers[s][k]),
                                        status, hours[s], clock)
    /\ updates' = [key \in DOMAIN updates \cup {LedgerKey(numbers[s][k])} |->
                      IF key = LedgerKey(numbers[s][k])
                      THEN (IF key \in DOMAIN updates THEN updates[key] ELSE 0) + 1
                      ELSE updates[key]]
    /\ IF FlushDue(checked_numbers')
       THEN SaveToFile(checked_numbers', user_stats)
       ELSE /\ sinceFlush' = sinceFlush + 1
            /\ UNCHANGED <<file, lastFlushed>>
    /\ results' = [results EXCEPT ![s] =
                      Append(@, CheckResult(numbers[s][k], status, hours[s], clock))]
    /\ progress' = [progress EXCEPT ![s] =
                        IF ProgressDue(k, Len(numbers[s]))
                        THEN ProgressText(k, Len(numbers[s]), results'[s]) ELSE @]
    /\ pc' = [pc EXCEPT ![s] = "sleep"]
    /\ wake' = [wake EXCEPT ![s] = clock + RateLimitSleep]
    /\ UNCHANGED user_stats

\* The top of an iteration: check_number on the next number, up to the await
\* in _check_with_api (a number that cleans to the empty string gets
\* "invalid" with no call, and the iteration goes on to its sleep).
IssueCall(s) ==
    /\ proc = "up"
    /\ \/ pc[s] = "start"
       \/ pc[s] = "sleep" /\ clock >= wake[s] /\ idx[s] < Len(numbers[s])
    /\ idx' = [idx EXCEPT ![s] = @ + 1]
    /\ IF NeedsCall(numbers[s][idx[s] + 1])
       THEN /\ pc' = [pc EXCEPT ![s] = "api"]
            /\ wake' = [wake EXCEPT ![s] = clock + ApiDelay]
            /\ lastCallAt' = clock
            /\ UNCHANGED <<storeVars, results, updates, progress>>
       ELSE /\ RecordItem(s, idx[s] + 1, check_number(numbers[s][idx[s] + 1], "ok"))
            /\ UNCHANGED lastCallAt
    /\ NoTrace
    /\ UNCHANGED <<clock, proc, conv, userVars, numbers, hours, cancelled, faults,
                   filterVars, normVars>>

\* The backend call returns or raises, and the iteration runs to its sleep.
ApiReturn(s, outcome) ==
    /\ proc = "up"
    /\ pc[s] = "api"
    /\ clock >= wake[s]
    /\ RecordItem(s, idx[s], check_number(numbers[s][idx[s]], outcome))
    /\ faults' = [faults EXCEPT ![s] = IF outcome = "raise" THEN @ \cup {idx[s]} ELSE @]
    /\ NoTrace
    /\ UNCHANGED <<clock, proc, conv, userVars, numbers, hours, idx,
                   lastCallAt, cancelled, filterVars, normVars>>

\* store.user_data[str(update.effective_user.id)] = {...}
UserStats(ud, s, now, total) ==
    [u \in DOMAIN ud \cup {s} |->
        IF u = s THEN [last_check |-> IsoFormat(now), total_checked |-> total]
        ELSE ud[u]]

\* After the last sleep: the results are stored in the session, the user's
\* statistics are saved, the summary is sent and the conversation ends.
Finish(s) ==
    /\ proc = "up"
    /\ pc[s] = "sleep"
    /\ clock >= wake[s]
    /\ idx[s] = Len(numbers[s])
    /\ check_results' = [check_results EXCEPT ![s] = results[s]]
    /\ retry_hours' = [retry_hours EXCEPT ![s] = hours[s]]
    /\ user_stats' = UserStats(user_stats, s, clock, Len(numbers[s]))
    /\ SaveToFile(checked_numbers, user_stats')
    /\ conv' = [conv EXCEPT ![s] = "END"]
    /\ pc' = [pc EXCEPT ![s] = "idle"]
    /\ numbers' = [numbers EXCEPT ![s] = <<>>]
    /\ hours' = [hours EXCEPT ![s] = DefaultRetryHours]
    /\ idx' = [idx EXCEPT ![s] = 0]
    /\ results' = [results EXCEPT ![s] = <<>>]
    /\ cancelled' = [cancelled EXCEPT ![s] = FALSE]
    /\ faults' = [faults EXCEPT ![s] = {}]
    /\ progress' = [progress EXCEPT ![s] = NoProgress]
    /\ NoTrace
    /\ UNCHANGED <<clock, proc, checked_numbers, numbers_to_check, wake,
                   updates, lastCallAt, filterVars, normVars>>

\* cancel: a fallback of the conversation; it answers and ends the
\* conversation, and touches nothing of a running batch.  The history notes a
\* cancel that comes between two items of the batch.
Cancel(s) ==
    /\ proc = "up"
    /\ conv[s] = "SETTING_RETRY_TIME"
    /\ conv' = [conv EXCEPT ![s] = "END"]
    /\ cancelled' = [cancelled EXCEPT ![s] =
                         pc[s] = "sleep" /\ idx[s] < Len(numbers[s])]
    /\ NoTrace
    /\ UNCHANGED <<clock, proc, storeVars, userVars, runVars, updates, lastCallAt,
                   faults, filterVars, normVars>>

\* Half a second passes.  The event loop resumes a coroutine when its sleep
\* ends: time does not pass over an expired sleep.
Tick(max) ==
    /\ clock < max
    /\ \A s \in Sessions : pc[s] \in {"api", "sleep"} => wake[s] > clock
    /\ clock' = clock + 1
    /\ NoTrace
    /\ UNCHANGED <<proc, conv, storeVars, userVars, runVars, histVars, filterVars,
                   normVars>>

\* What one session does, its numbers texts drawn from texts.
SessionStep(s, texts) ==
    \/ CheckNoArgs(s)
    \/ \E nums \in NumberLists(texts) : CheckWithArgs(s, nums)
    \/ \E text \in Replies : SetRetryAndCheck(s, text)
    \/ IssueCall(s)
    \/ \E outcome \in {"ok", "raise"} : ApiReturn(s, outcome)
    \/ Finish(s)

\* One session, which may cancel.
Next ==
    \/ SessionStep("u1", TextsUpTo(MaxBatch))
    \/ Cancel("u1")
    \/ Tick(MaxClock)

Spec == Init /\ [][Next]_vars

\* Two sessions, interleaved at the awaits of their batches.
NextShared ==
    \/ \E s \in Sessions : SessionStep(s, SharedTexts)
    \/ Tick(MaxClock)

SpecShared == Init /\ [][NextShared]_vars

\* ------------------------------------------------------------------- faults

\* The memory of the process is lost.
Wiped ==
    /\ checked_numbers' = EmptyMap
    /\ user_stats' = EmptyMap
    /\ conv' = [s \in Sessions |-> "END"]
    /\ numbers_to_check' = [s \in Sessions |-> <<>>]
    /\ check_results' = [s \in Sessions |-> <<>>]
    /\ retry_hours' = [s \in Sessions |-> DefaultRetryHours]
    /\ pc' = [s \in Sessions |-> "idle"]
    /\ numbers' = [s \in Sessions |-> <<>>]
    /\ hours' = [s \in Sessions |-> DefaultRetryHours]
    /\ idx' = [s \in Sessions |-> 0]
    /\ results' = [s \in Sessions |-> <<>>]
    /\ wake' = [s \in Sessions |-> 0]
    /\ cancelled' = [s \in Sessions |-> FALSE]
    /\ faults' = [s \in Sessions |-> {}]
    /\ updates' = EmptyMap
    /\ sinceFlush' = 0
    /\ progress' = [s \in Sessions |-> NoProgress]
    /\ current_filter' = [s \in Sessions |-> ""]
    /\ combo_filter' = [s \in Sessions |-> ""]
    /\ UNCHANGED combo_menu
    /\ NoTrace
    /\ UNCHANGED normVars

\* The process is killed outside save_to_file: data.json is as it was.
Crash ==
    /\ proc = "up"
    /\ proc' = "crashed"
    /\ Wiped
    /\ UNCHANGED <<clock, file, lastFlushed, lastCallAt>>

\* The process is killed in the save_to_file that ends a batch, after
\* open(filename, 'w') has truncated data.json and before json.dump has
\* written it to its end.
CrashInFlush(s) ==
    /\ proc = "up"
    /\ pc[s] = "sleep"
    /\ clock >= wake[s]
    /\ idx[s] = Len(numbers[s])
    /\ proc' = "crashed_in_flush"
    /\ file' = Torn
    /\ Wiped
    /\ UNCHANGED <<clock, lastFlushed, lastCallAt>>

\* The process starts again: store = DataStore(); store.load_from_file().
\* FileNotFoundError is caught; json.load raises on a torn file, which no
\* handler catches, and the process ends.
Restart ==
    /\ proc \in {"crashed", "crashed_in_flush"}
    /\ IF file = Torn
       THEN /\ proc' = "failed"
            /\ UNCHANGED <<checked_numbers, user_stats>>
       ELSE /\ proc' = "up"
            /\ checked_numbers' = IF file = Missing THEN EmptyMap
                                  ELSE JsonLoadChecked(file)
            /\ user_stats' = IF file = Missing THEN EmptyMap
                             ELSE JsonLoadUsers(file)
    /\ NoTrace
    /\ UNCHANGED <<clock, file, lastFlushed, sinceFlush, conv, userVars, runVars,
                   histVars, filterVars, normVars>>

\* One session, and a process that may be killed and started again.
NextCrash ==
    \/ SessionStep("u1", TextsUpTo(MaxBatch))
    \/ Tick(MaxClock)
    \/ Crash
    \/ CrashInFlush("u1")
    \/ Restart

SpecCrash == Init /\ [][NextCrash]_vars

\* The periodic save of update_status raises (open or json.dump fails): the
\* record is written to the ledger, data.json is as it was or torn, and the
\* exception leaves set_retry_and_check, whose results and position are lost
\* and whose conversation state stays.
ApiReturnSaveFails(s, outcome) ==
    /\ proc = "up"
    /\ pc[s] = "api"
    /\ clock >= wake[s]
    /\ checked_numbers' = update_status(checked_numbers, LedgerKey(numbers[s][idx[s]]),
                                        check_number(numbers[s][idx[s]], outcome),
                                        hours[s], clock)
    /\ FlushDue(checked_numbers')
    /\ updates' = [key \in DOMAIN updates \cup {LedgerKey(numbers[s][idx[s]])} |->
                      IF key = LedgerKey(numbers[s][idx[s]])
                      THEN (IF key \in DOMAIN updates THEN updates[key] ELSE 0) + 1
                      ELSE updates[key]]
    /\ sinceFlush' = sinceFlush + 1
    /\ \E f \in {file, Torn} : file' = f
    /\ pc' = [pc EXCEPT ![s] = "idle"]
    /\ numbers' = [numbers EXCEPT ![s] = <<>>]
    /\ hours' = [hours EXCEPT ![s] = DefaultRetryHours]
    /\ idx' = [idx EXCEPT ![s] = 0]
    /\ results' = [results EXCEPT ![s] = <<>>]
    /\ cancelled' = [cancelled EXCEPT ![s] = FALSE]
    /\ faults' = [faults EXCEPT ![s] = {}]
    /\ progress' = [progress EXCEPT ![s] = NoProgress]
    /\ NoTrace
    /\ UNCHANGED <<clock, proc, conv, user_stats, lastFlushed, userVars, wake,
                   lastCallAt, filterVars, normVars>>

\* The save that ends the batch raises: the results are stored in the
\* session, and the exception leaves set_retry_and_check before the summary.
FinishSaveFails(s) ==
    /\ proc = "up"
    /\ pc[s] = "sleep"
    /\ clock >= wake[s]
    /\ idx[s] = Len(numbers[s])
    /\ check_results' = [check_results EXCEPT ![s] = results[s]]
    /\ retry_hours' = [retry_hours EXCEPT ![s] = hours[s]]
    /\ user_stats' = UserStats(user_stats, s, clock, Len(numbers[s]))
    /\ \E f \in {file, Torn} : file' = f
    /\ pc' = [pc EXCEPT ![s] = "failed"]
    /\ NoTrace
    /\ UNCHANGED <<clock, proc, conv, checked_numbers, lastFlushed, sinceFlush,
                   numbers_to_check, numbers, hours, idx, results, wake, progress,
                   histVars, filterVars, normVars>>

\* One session and long batches.
NextLong ==
    \/ SessionStep("u1", RepeatTexts \cup {DistinctText})
    \/ Tick(LongClock)

SpecLong == Init /\ [][NextLong]_vars

\* One session and a long batch, and a data.json that cannot always be
\* written.
NextFault ==
    \/ SessionStep("u1", {DistinctText})
    \/ \E outcome \in {"ok", "raise"} : ApiReturnSaveFails("u1", outcome)
    \/ FinishSaveFails("u1")
    \/ Tick(LongClock)

SpecFault == Init /\ [][NextFault]_vars

\* ------------------------------------------------------------------- export

\* export_results: the results of the session, filtered unless all are
\* asked for, are sent as a file, or the export is rejected.
export_results(s, export_all) ==
    /\ proc = "up"
    /\ exported' =
           [session |-> s, all |-> export_all] @@
           ExportReply(check_results[s],
                       IF export_all THEN check_results[s]
                       ELSE Filtered(check_results[s], current_filter[s],
                                     combo_filter[s], clock),
                       IF export_all THEN "all"
                       ELSE FilterDesc(current_filter[s], combo_filter[s]))
    /\ handled' = NoReply
    /\ UNCHANGED <<clock, proc, conv, storeVars, userVars, runVars, histVars,
                   filterVars, normVars>>

\* button_handler for the callback data of a button some message of the chat
\* shows: the keyboard of /filter at any time, the combo keyboard once
\* 'filter_combo' was pressed, the keyboard of a finished batch.
\* 'filter_menu' calls filter_numbers with the message for the update, which
\* raises; 'view_stats' meets no branch.
button_handler(s, data) ==
    /\ data \in ComboButtons => combo_menu[s]
    /\ data \in DoneButtons => check_results[s] # <<>>
    /\ IF data \in {"export_filtered", "export_all"}
       THEN export_results(s, data = "export_all")
       ELSE /\ proc = "up"
            /\ current_filter' =
                   IF data \in FilterButtons
                   THEN [current_filter EXCEPT ![s] = Replaced(data)]
                   ELSE current_filter
            /\ combo_filter' =
                   IF data \in ComboButtons
                   THEN [combo_filter EXCEPT ![s] = Replaced(data)]
                   ELSE combo_filter
            /\ combo_menu' =
                   IF data = "filter_combo" THEN [combo_menu EXCEPT ![s] = TRUE]
                   ELSE combo_menu
            /\ NoTrace
            /\ UNCHANGED <<clock, proc, conv, storeVars, userVars, runVars,
                           histVars, normVars>>

\* The texts, the replies and the instants of the sessions that export: a
\* number on WhatsApp and one that is not, twice; one hour between retries;
\* and, an hour after the batch, the instants at which the first retry, and
\* then the second, has come.
ExportTexts == {<<"0", "8", ",", "0", "7", ",", "0", "7">>}

ExportReplies == {<<"1">>}

ExportClock == 3 * (ApiDelay + RateLimitSleep)

ExportInstants ==
    {TicksPerHour + (ApiDelay + RateLimitSleep),
     TicksPerHour + 2 * (ApiDelay + RateLimitSleep)}

\* Time passes, while no batch runs, up to the instant t.
Elapse(t) ==
    /\ t > clock
    /\ \A s \in Sessions : pc[s] = "idle"
    /\ clock' = t
    /\ NoTrace
    /\ UNCHANGED <<proc, conv, storeVars, userVars, runVars, histVars, filterVars,
                   normVars>>

\* One session that checks, selects filters and exports.
NextExport ==
    \/ CheckNoArgs("u1")
    \/ \E nums \in NumberLists(ExportTexts) : CheckWithArgs("u1", nums)
    \/ \E text \in ExportReplies : SetRetryAndCheck("u1", text)
    \/ IssueCall("u1")
    \/ \E outcome \in {"ok", "raise"} : ApiReturn("u1", outcome)
    \/ Finish("u1")
    \/ \E data \in FilterButtons \cup ComboButtons \cup DoneButtons :
          button_handler("u1", data)
    \/ export_results("u1", TRUE)
    \/ Tick(ExportClock)
    \/ \E t \in ExportInstants : Elapse(t)

SpecExport == Init /\ [][NextExport]_vars

\* ----------------------------------------------------------------- progress

\* The text of a batch of many numbers, by turns one that is on WhatsApp and
\* one that is not.
ManyText ==
    [k \in 1..(3 * ManyNumbers - 1) |->
        IF k % 3 = 0 THEN ","
        ELSE IF k % 3 = 1 THEN "0"
        ELSE IF ((k + 1) \div 3) % 2 = 1 THEN "8" ELSE "7"]

ManyClock == ManyNumbers * (ApiDelay + RateLimitSleep)

\* Half a second passes of a sleep of the batch of session s.
TickOfBatch(s, max) == pc[s] \in {"api", "sleep"} /\ Tick(max)

\* One session and a batch of many numbers, whose backend calls all return.
NextProgress ==
    \/ CheckNoArgs("u1")
    \/ \E nums \in NumberLists({ManyText}) : CheckWithArgs("u1", nums)
    \/ \E text \in Replies : SetRetryAndCheck("u1", text)
    \/ IssueCall("u1")
    \/ ApiReturn("u1", "ok")
    \/ Finish("u1")
    \/ TickOfBatch("u1", ManyClock)

SpecProgress == Init /\ [][NextProgress]_vars

\* ------------------------------------------------------------ normalisation

\* clean_phone_number(raw)
Clean ==
    /\ cleaned = NotYet
    /\ cleaned' = clean_phone_number(raw)
    /\ UNCHANGED <<clock, proc, conv, storeVars, userVars, runVars, histVars,
                   filterVars, traceVars, raw, recleaned, verdict, called>>

\* clean_phone_number on what clean_phone_number returned.
CleanAgain ==
    /\ cleaned # NotYet
    /\ recleaned = NotYet
    /\ recleaned' = clean_phone_number(cleaned)
    /\ UNCHANGED <<clock, proc, conv, storeVars, userVars, runVars, histVars,
                   filterVars, traceVars, raw, cleaned, verdict, called>>

\* check_number(raw) to its return, the backend answering or raising where
\* it is called.
CheckNumber(outcome) ==
    /\ verdict = "none"
    /\ verdict' = check_number(raw, outcome)
    /\ called' = NeedsCall(raw)
    /\ UNCHANGED <<clock, proc, conv, storeVars, userVars, runVars, histVars,
                   filterVars, traceVars, raw, cleaned, recleaned>>

\* The functions of WhatsAppChecker applied to any raw input.
InitNorm == Booted /\ raw \in RawStrings

NextNorm ==
    \/ Clean
    \/ CleanAgain
    \/ \E outcome \in {"ok", "raise"} : CheckNumber(outcome)

SpecNorm == InitNorm /\ [][NextNorm]_vars

\* ------------------------------------------------------------- conversation

\* What a session sends after the prompt of /check without arguments, "Send
\* phone numbers": a text of two numbers, or a reply to the retry prompt.
NumbersText == <<"0", "8", ",", "0", "7">>

Messages == Replies \cup {NumbersText}

\* One session that converses: every text message that is no command, sent
\* in SETTING_RETRY_TIME, is handled by set_retry_and_check.
NextConversation ==
    \/ CheckNoArgs("u1")
    \/ \E nums \in NumberLists(TextsUpTo(MaxBatch)) : CheckWithArgs("u1", nums)
    \/ \E text \in Messages : SetRetryAndCheck("u1", text)
    \/ IssueCall("u1")
    \/ \E outcome \in {"ok", "raise"} : ApiReturn("u1", outcome)
    \/ Finish("u1")
    \/ Tick(MaxClock)

SpecConversation == Init /\ [][NextConversation]_vars

\* ------------------------------------------------------------------- claims

\* A backend call starts in this step, for session s.
CallStarts(s) == pc[s] # "api" /\ pc'[s] = "api"

\* The batch of session s ends in this step with its results stored.
BatchEnds(s) == pc[s] = "sleep" /\ pc'[s] = "idle"

\* C1: the attempts of every ledger record is the number of update_status
\* calls made for its key, also when two sessions whose batches interleave
\* update the same key; no update is lost.
C1_AttemptsCountUpdates ==
    /\ DOMAIN checked_numbers = DOMAIN updates
    /\ \A k \in DOMAIN checked_numbers : checked_numbers[k].attempts = updates[k]

\* Both sessions have just updated the same key, one after the other, each
\* between its backend call and its sleep, and another key was updated too.
C1_Witness ==
    \E k \in DOMAIN checked_numbers :
        /\ checked_numbers[k].attempts >= 2
        /\ \A s \in Sessions : pc[s] = "sleep" /\ LedgerKey(numbers[s][idx[s]]) = k
        /\ \E o \in DOMAIN checked_numbers : o # k

\* C2: a ledger record has a next_retry if and only if its status is
\* "not_on_whatsapp".
C2_RetryIffNotOnWhatsApp ==
    \A k \in DOMAIN checked_numbers :
        checked_numbers[k].next_retry # None
            <=> checked_numbers[k].status = "not_on_whatsapp"

\* The ledger holds a record with a retry and an "error" record without.
C2_Witness ==
    \E k, o \in DOMAIN checked_numbers :
        /\ checked_numbers[k].status = "not_on_whatsapp"
        /\ checked_numbers[k].next_retry # None
        /\ checked_numbers[o].status = "error"
        /\ checked_numbers[o].next_retry = None

\* C3: a batch that runs to its end stores one result per input, in input
\* order, the phone of result i being the normalized input i.
C3_OneResultPerInput ==
    [][\A s \in Sessions :
          BatchEnds(s) =>
              /\ Len(check_results'[s]) = Len(numbers[s])
              /\ \A i \in 1..Len(numbers[s]) :
                    check_results'[s][i].phone = clean_phone_number(numbers[s][i])]_vars

\* A batch over the same number twice has ended with two results for it, one
\* of them an "error".
C3_Witness ==
    /\ Len(numbers_to_check["u1"]) = 2
    /\ numbers_to_check["u1"][1] = numbers_to_check["u1"][2]
    /\ Len(check_results["u1"]) = 2
    /\ \A i \in 1..2 :
          check_results["u1"][i].phone = clean_phone_number(numbers_to_check["u1"][i])
    /\ check_results["u1"][1].status = "error"
    /\ check_results["u1"][2].status # "error"

\* C4: a backend call that raises for item i gives result i and the ledger
\* record written for it the status "error" and the batch goes on to its
\* sleep and its next items: it ends with a result for every input, and the
\* items whose call did not raise have the backend's answer.
C4_BackendErrorIsolated ==
    [][\A s \in Sessions :
          /\ faults'[s] \notin {faults[s], {}} =>
                /\ pc'[s] = "sleep"
                /\ results'[s][idx[s]].status = "error"
                /\ checked_numbers'[LedgerKey(numbers[s][idx[s]])].status = "error"
          /\ (BatchEnds(s) /\ faults[s] # {}) =>
                /\ Len(check_results'[s]) = Len(numbers[s])
                /\ \A i \in 1..Len(numbers[s]) :
                      check_results'[s][i].status =
                          IF i \in faults[s] THEN "error"
                          ELSE check_with_api(clean_phone_number(numbers[s][i]))]_vars

\* The call of the first of two items raised, and the second item has been
\* verified and recorded.
C4_Witness ==
    /\ faults["u1"] = {1}
    /\ pc["u1"] = "sleep"
    /\ Len(results["u1"]) = 2
    /\ results["u1"][1].status = "error"
    /\ results["u1"][2].status = "not_on_whatsapp"
    /\ checked_numbers[LedgerKey(numbers["u1"][2])].status = "not_on_whatsapp"

\* C5: the ledger is keyed by the normalized number: the record of the item a
\* batch has just recorded is under its normalized form, and no two keys have
\* the same normalized form.
C5_LedgerKeyedByCanonical ==
    /\ \A s \in Sessions :
          pc[s] = "sleep" =>
              clean_phone_number(numbers[s][idx[s]]) \in DOMAIN checked_numbers
    /\ \A k, o \in DOMAIN checked_numbers :
          clean_phone_number(k) = clean_phone_number(o) => k = o

\* C6: fewer than FlushEvery update_status calls have been made since the
\* last completed save_to_file.
C6_FlushEveryTenUpserts == sinceFlush < FlushEvery

\* C7: a process killed in the middle of a save starts again, and its ledger
\* then holds only records of the last completed save.
C7_RestartAfterTornFlush ==
    [][(proc = "crashed_in_flush" /\ proc' # proc) =>
          /\ proc' = "up"
          /\ \A k \in DOMAIN checked_numbers' :
                /\ lastFlushed # Missing
                /\ k \in DOMAIN lastFlushed.checked_numbers
                /\ checked_numbers'[k] = JsonLoadChecked(lastFlushed)[k]]_vars

\* C8: once /cancel has come while a batch runs, the batch starts no backend
\* call and its results are not stored.
C8_CancelStopsBatch ==
    [][\A s \in Sessions :
          cancelled[s] => ~CallStarts(s) /\ check_results'[s] = check_results[s]]_vars

\* C9: a backend call never starts less than MinInterval after the one
\* before it.
C9_MinIntervalBetweenCalls ==
    [][\A s \in Sessions :
          (CallStarts(s) /\ lastCallAt >= 0) => clock - lastCallAt >= MinInterval]_vars

\* C10: a batch ends only with all its inputs processed and its results
\* stored, with the summary sent: a save that raises does not end it.
C10_FlushFailureIsolated ==
    [][\A s \in Sessions :
          (pc[s] \notin {"idle", "failed"} /\ pc'[s] \in {"idle", "failed"}) =>
              /\ idx[s] = Len(numbers[s])
              /\ check_results'[s] = results[s]
              /\ pc'[s] = "idle"]_vars

\* The raw input holds no digit.
NoDigit(text) == \A k \in 1..Len(text) : ~IsDigit(text[k])

\* C11: clean_phone_number is idempotent: applied to what it returned for a
\* raw input, it returns the same.
C11_CleanIdempotent == recleaned # NotYet => recleaned = cleaned

\* A number with the trunk digit and a blank inside has been cleaned twice,
\* and the first cleaning changed it.
C11_Witness ==
    /\ raw = <<"0", " ", "3">>
    /\ cleaned = <<"+", "2", "3", "4", "3">>
    /\ recleaned = cleaned

\* C12: what clean_phone_number returns is the invalid marker (the empty
\* string) or one '+' followed by digits only, at least one.
C12_PlusThenDigits ==
    cleaned # NotYet =>
        \/ cleaned = <<>>
        \/ /\ Len(cleaned) >= 2
           /\ cleaned[1] = "+"
           /\ \A k \in 2..Len(cleaned) : IsDigit(cleaned[k])

\* C13: for a raw input without a digit clean_phone_number returns the
\* invalid marker, and check_number returns "invalid" and calls no backend.
C13_NoDigitIsInvalid ==
    NoDigit(raw) =>
        /\ cleaned # NotYet => cleaned = <<>>
        /\ verdict # "none" => verdict = "invalid" /\ ~called

\* a is b less some of its items, in b's order.
RECURSIVE IsSubSeq(_, _)
IsSubSeq(a, b) ==
    IF a = <<>> THEN TRUE
    ELSE IF b = <<>> THEN FALSE
    ELSE IF Head(a) = Head(b) THEN IsSubSeq(Tail(a), Tail(b))
    ELSE IsSubSeq(a, Tail(b))

\* The items of rs whose status is "invalid" or "error".
InvalidOrError(rs) == SelectSeq(rs, LAMBDA r : r.status \in {"invalid", "error"})

\* C14: for the results a batch has stored and the time it now is, what the
\* AND filter gives is part of what the OR filter gives, which is part of the
\* results; no item is in what the filters 'on' and 'off' give both, and these
\* two with the "invalid" and "error" items are the results.
C14_FilterInclusions ==
    \A s \in Sessions :
        LET rs == check_results[s]
        IN  /\ IsSubSeq(FilterBothAnd(rs, clock), FilterBothOr(rs, clock))
            /\ IsSubSeq(FilterBothOr(rs, clock), rs)
            /\ \A i \in 1..Len(FilterOn(rs)) : \A j \in 1..Len(FilterOff(rs)) :
                  FilterOn(rs)[i] # FilterOff(rs)[j]
            /\ IsSubSeq(FilterOn(rs), rs)
            /\ IsSubSeq(FilterOff(rs), rs)
            /\ Len(FilterOn(rs)) + Len(FilterOff(rs)) + Len(InvalidOrError(rs))
                  = Len(rs)

\* The AND filter has exported one item of results that hold an "error" item
\* and two items not on WhatsApp, the retry of one of which has come.
C14_Witness ==
    /\ exported.kind = "file"
    /\ current_filter["u1"] = "combo"
    /\ combo_filter["u1"] = "both_and"
    /\ Len(exported.rows) = 1
    /\ Len(FilterOff(check_results["u1"])) = 2
    /\ Len(InvalidOrError(check_results["u1"])) = 1
    /\ Len(FilterBothOr(check_results["u1"], clock)) = 3

\* The items of rs, in order, that are in the set keep.
Those(rs, keep) == SelectSeq(rs, LAMBDA r : r \in keep)

\* The session holds one of the five filters: 'on', 'off' or 'retry' as
\* current_filter, AND or OR as the combo_filter of the current filter 'combo'.
C15_HoldsFilter(s) ==
    \/ current_filter[s] \in {"on", "off", "retry"}
    \/ current_filter[s] = "combo" /\ combo_filter[s] \in {"both_and", "both_or"}

\* The list the claim gives for the filter the session holds.
C15_Expected(s) ==
    LET rs == check_results[s]
        all == {rs[i] : i \in 1..Len(rs)}
        off == {r \in all : r.status = "not_on_whatsapp"}
        due == {r \in all : r.next_retry # None /\ r.next_retry.t > clock}
        open == {r \in all : r.next_retry = None \/ r.next_retry.t > clock}
    IN  CASE current_filter[s] = "on" ->
                Those(rs, {r \in all : r.status = "on_whatsapp"})
          [] current_filter[s] = "off" -> Those(rs, off)
          [] current_filter[s] = "retry" -> Those(rs, due)
          [] current_filter[s] = "combo" /\ combo_filter[s] = "both_and" ->
                Those(rs, off \cap open)
          [] current_filter[s] = "combo" /\ combo_filter[s] = "both_or" ->
                Those(rs, off \cup open)

\* C15: a filtered export sends the items of the session's results that meet
\* the predicate of the filter the session holds, all of them, in the order
\* of the results, and rejects the export where there is none.
C15_ExportIsFilteredSubsequence ==
    \A s \in Sessions :
        (/\ exported.session = s
         /\ ~exported.all
         /\ check_results[s] # <<>>
         /\ C15_HoldsFilter(s)) =>
            IF C15_Expected(s) = <<>> THEN exported.kind = "no_match"
            ELSE exported.kind = "file" /\ exported.rows = C15_Expected(s)

\* The filter 'retry' has exported, of three results, the one whose retry is
\* to come, the retry of the other having come.
C15_Witness ==
    /\ exported.kind = "file"
    /\ ~exported.all
    /\ current_filter["u1"] = "retry"
    /\ Len(check_results["u1"]) = 3
    /\ exported.rows = <<check_results["u1"][3]>>
    /\ check_results["u1"][2].status = "not_on_whatsapp"

\* C18: an export_results that has nothing to export, no results or none
\* that the filter takes, answers with a rejection and sends no file, and
\* leaves the results and the filters of the session as they are.
C18_EmptyExportRejected ==
    [][\A s \in Sessions :
          (/\ exported'.session = s
           /\ (IF exported'.all THEN check_results[s]
               ELSE Filtered(check_results[s], current_filter[s], combo_filter[s],
                             clock)) = <<>>) =>
              /\ exported'.kind \in {"no_results", "no_match"}
              /\ exported'.rows = <<>>
              /\ check_results' = check_results
              /\ current_filter' = current_filter
              /\ combo_filter' = combo_filter]_vars

\* The filter 'retry' was exported after the retries of all results had
\* come, and the export was rejected; the results are there.
C18_Witness ==
    /\ exported.kind = "no_match"
    /\ current_filter["u1"] = "retry"
    /\ FilterOff(check_results["u1"]) # <<>>

\* C16: after item i of a batch the progress message has been edited if and
\* only if i is a multiple of ProgressEvery or the last item; it then tells i,
\* the total, the percentage 100 * i / total rounded down and the numbers of
\* the first i results that are on WhatsApp and that are not.
C16_ProgressCadence ==
    \A s \in Sessions :
        pc[s] = "sleep" =>
            LET i == idx[s]
                total == Len(numbers[s])
                first == SubSeq(results[s], 1, i)
            IN  IF i % ProgressEvery = 0 \/ i = total
                THEN /\ progress[s].processed = i
                     /\ progress[s].total = total
                     /\ progress[s].percent = (100 * i) \div total
                     /\ progress[s].on =
                           Cardinality({j \in 1..i : first[j].status = "on_whatsapp"})
                     /\ progress[s].off =
                           Cardinality({j \in 1..i :
                                           first[j].status = "not_on_whatsapp"})
                ELSE progress[s].processed = i - (i % ProgressEvery)

\* The reply is no number, or a number of hours outside 1..168.
C17_BadHours(text) ==
    \/ IntRaises(text)
    \/ IntOf(text) < MinRetryHours
    \/ IntOf(text) > MaxRetryHours

\* Nothing is processed in this step: no batch starts or moves, no backend
\* call starts, and the ledger, its file and the results are as they were.
C17_NothingProcessed ==
    /\ pc' = pc
    /\ lastCallAt' = lastCallAt
    /\ checked_numbers' = checked_numbers
    /\ file' = file
    /\ results' = results
    /\ check_results' = check_results

\* C17: a reply to the retry prompt that is no number of hours in 1..168 is
\* rejected with nothing processed, and the conversation goes on waiting for
\* the retry hours; a good reply with no numbers pending ends the conversation
\* with nothing processed.
C17_RejectedBeforeProcessing ==
    [][\A s \in Sessions :
          handled'.session = s =>
              /\ C17_BadHours(handled'.text) =>
                    C17_NothingProcessed /\ conv'[s] = "SETTING_RETRY_TIME"
              /\ (~C17_BadHours(handled'.text) /\ numbers_to_check[s] = <<>>) =>
                    C17_NothingProcessed /\ conv'[s] = "END"]_vars

\* The reply "169" has been rejected while numbers are pending.
C17_Witness ==
    /\ handled = [session |-> "u1", text |-> <<"1", "6", "9">>]
    /\ numbers_to_check["u1"] # <<>>
    /\ conv["u1"] = "SETTING_RETRY_TIME"
    /\ pc["u1"] = "idle"

\* C19: the next_retry of the result of the item a batch has just recorded
\* is that of the ledger record written for it: both absent, or both the
\* same instant.
C19_ResultRetryIsLedgerRetry ==
    \A s \in Sessions :
        pc[s] = "sleep" =>
            LET r == results[s][idx[s]]
                rec == checked_numbers[LedgerKey(numbers[s][idx[s]])]
            IN  /\ r.next_retry = None <=> rec.next_retry = None
                /\ r.next_retry # None => r.next_retry.t = rec.next_retry.t

\* C20: no backend call starts for a number of which the ledger holds a
\* "not_on_whatsapp" record whose next_retry is to come.
C20_NoCallInRetryWindow ==
    [][\A s \in Sessions :
          CallStarts(s) =>
              \A k \in DOMAIN checked_numbers :
                  ~ /\ clean_phone_number(k) = clean_phone_number(numbers[s][idx'[s]])
                    /\ checked_numbers[k].status = "not_on_whatsapp"
                    /\ checked_numbers[k].next_retry.t > clock]_vars

\* C21: a session with no pending numbers that has been asked for numbers by
\* /check takes the next message that holds a number as its pending list,
\* and goes on to wait for the retry hours without starting a run; a run
\* starts only from the wait for the retry hours, over exactly the pending
\* list, which is not empty; and the conversation is over when the run ends.
C21_SessionStateMachine ==
    [][\A s \in Sessions :
          /\ ( /\ handled'.session = s
               /\ numbers_to_check[s] = <<>>
               /\ ExtractNumbers(handled'.text) # <<>> ) =>
                  /\ numbers_to_check'[s] = ExtractNumbers(handled'.text)
                  /\ conv'[s] = "SETTING_RETRY_TIME"
                  /\ pc'[s] = "idle"
          /\ (pc[s] = "idle" /\ pc'[s] = "start") =>
                  /\ conv[s] = "SETTING_RETRY_TIME"
                  /\ numbers_to_check[s] # <<>>
                  /\ numbers'[s] = numbers_to_check[s]
          /\ BatchEnds(s) => conv'[s] = "END"]_vars

\* C22: a filtered export made while the filter selected last is Reset sends
\* the whole result list of the session unchanged, whatever was selected
\* before the Reset, a combinator included.
C22_ResetExportsAll ==
    \A s \in Sessions :
        ( /\ exported.session = s
          /\ ~exported.all
          /\ current_filter[s] = "reset"
          /\ check_results[s] # <<>> ) =>
            /\ exported.kind = "file"
            /\ exported.rows = check_results[s]

====
